---- MODULE Spec2Model ----
(***************************************************************************)
(* The monitoring plugin of x-pack/plugins/monitoring/server/plugin.ts:    *)
(* its lifecycle (setup, start, stop), the license$ subscription that      *)
(* drives the bulk uploader, and the legacy shim that adapts old-style     *)
(* route handlers to the new router.                                       *)
(*                                                                         *)
(* The bulk uploader itself (./kibana_monitoring, initBulkUploader) is not *)
(* part of the sources at hand: its start / handleNotEnabled / timer       *)
(* behaviour is modelled from the specification's section 4.3.             *)
(*                                                                         *)
(* Optional JavaScript fields (a value or undefined) are sets with at most *)
(* one element: {} is undefined, {403} is the value 403.                   *)
(***************************************************************************)
EXTENDS Integers, Sequences, FiniteSets, TLC

\* ------------------------------------------------------------------ bounds
\* License emissions observed by the subscription.
MaxEmissions == 4
\* Calls of Plugin.stop().
MaxStops == 2
\* Calls of MonitoringCore.route(options).
MaxRoutes == 2

\* The fallback status of the bridge (plugin.ts:404) and of wrapError (:62).
InternalServerError == 500

VARIABLES
    config,              \* the configuration and plugins handed to setup
    setupDone,           \* Plugin.setup has run
    subscribed,          \* license$.subscribe(...) was called (plugin.ts:208)
    uploaderCreated,     \* this.bulkUploader holds the uploader (plugin.ts:184)
    shimCreated,         \* this.monitoringCore holds the legacy shim (plugin.ts:234)
    setupLog,            \* what setup logged about collection: none, warn, info
    schedulerState,      \* bulk uploader: "Stopped" or "Running"
    timers,              \* bulk uploader: number of active periodic timers
    tickInFlight,        \* an upload tick is executing
    lastUpload,          \* result of the last finished tick: none, ok, failed
    lastLicense,         \* getFeature('monitoring') of the last license observed
    stream,              \* history: per emission, whether the snapshot was enabled
    dispatched,          \* history: per emission, the uploader method called
    effects,             \* history: per emission, what the scheduler did
    transitions,         \* number of real scheduler state transitions
    stopCalls,           \* calls of Plugin.stop()
    closeCalls,          \* calls of cluster.close() observed on the client
    licenseServiceStops, \* calls of licenseService.stop()
    router,              \* handlers registered per router method
    routeCalls,          \* calls of MonitoringCore.route
    lastRoute,           \* the last route call: its method and whether it threw
    lastRequest,         \* the last HTTP request served through the shim
    lastResponse,        \* what the new-style handler did for it
    packageVersion,      \* initializerContext.env.packageInfo.version, its characters
    pluginConfig,        \* config: the key paths it holds
    legacyConfig,        \* legacyConfig: the key paths it holds
    telemetryManager,    \* plugins.telemetryCollectionManager is present
    kibanaStats,         \* the kibanaStats handed to initBulkUploader, once made
    telemetryRegistered, \* registerMonitoringCollection was called with the getters
    telemetryElasticsearchClient,  \* this.telemetryElasticsearchClient
    telemetrySavedObjectsService,  \* this.telemetrySavedObjectsService
    collections,         \* history: what each collection attempt's getters gave
    lastStart,           \* history: the services handed to the last Plugin.start
    lastStats,           \* the last call of the getKibanaStats setup returned
    lastClusterCall,     \* the last getCluster(name).callWithRequest(...)
    lastLookup           \* the last legacy config get(key)

vars == <<config, setupDone, subscribed, uploaderCreated, shimCreated, setupLog,
          schedulerState, timers, tickInFlight, lastUpload,
          lastLicense, stream, dispatched, effects, transitions,
          stopCalls, closeCalls, licenseServiceStops,
          router, routeCalls, lastRoute, lastRequest, lastResponse,
          packageVersion, pluginConfig, legacyConfig, telemetryManager,
          kibanaStats, telemetryRegistered, telemetryElasticsearchClient,
          telemetrySavedObjectsService, collections, lastStart, lastStats,
          lastClusterCall, lastLookup>>

lifecycleVars == <<config, setupDone, subscribed, uploaderCreated, shimCreated, setupLog>>
uploaderVars == <<schedulerState, timers, transitions>>
tickVars == <<tickInFlight, lastUpload>>
licenseVars == <<lastLicense, stream, dispatched, effects>>
stopVars == <<stopCalls, closeCalls, licenseServiceStops>>
routeVars == <<router, routeCalls, lastRoute>>
requestVars == <<lastRequest, lastResponse>>
inputVars == <<packageVersion, pluginConfig, legacyConfig, telemetryManager>>
telemetryVars == <<telemetryElasticsearchClient, telemetrySavedObjectsService,
                   collections, lastStart>>
shimCallVars == <<lastClusterCall, lastLookup>>
\* What the actions of the scheduler, the shutdown and the bridge leave alone.
restVars == <<inputVars, kibanaStats, telemetryRegistered, telemetryVars,
              lastStats, shimCallVars>>

\* ------------------------------------------------------------------ inputs
\* What setup is given: config.kibana.collection.enabled, plugins.licensing
\* present, config.ui.enabled.
Configs == [collectionEnabled : BOOLEAN, licensing : BOOLEAN, uiEnabled : BOOLEAN]

\* license.getFeature('monitoring'): undefined, or {isAvailable, isEnabled}.
Features == {{}} \cup {{f} : f \in [isAvailable : BOOLEAN, isEnabled : BOOLEAN]}

\* options.method of a route registration.
Methods == {"GET", "POST", "PUT", "DELETE", "get"}

\* The methods drawn while the scheduler runs: one supported, one not.
FewMethods == {"GET", "DELETE"}

RouterMethods == {"get", "post", "put"}

\* Version strings, as sequences of characters.
VersionBases == {<<"7", ".", "1", "0", ".", "0">>, <<"8", ".", "0", ".", "0">>}

VersionSuffixes ==
    {<<>>,
     <<"-", "S", "N", "A", "P", "S", "H", "O", "T">>,
     <<"-", "s", "n", "a", "p", "s", "h", "o", "t">>,
     <<"-", "S", "n", "a", "p", "S", "h", "o", "t">>,
     <<"-", "S", "N", "A", "P", "S", "H", "O">>,
     <<"S", "N", "A", "P", "S", "H", "O", "T">>,
     <<"-", "b", "e", "t", "a", "1">>,
     <<"-", "S", "N", "A", "P", "S", "H", "O", "T", "+", "1">>}

\* The values of initializerContext.env.packageInfo.version drawn.
Versions == {b \o x : b \in VersionBases, x \in VersionSuffixes}

\* The version the specifications that do not vary it run with.
DefaultVersion == <<"7", ".", "1", "0", ".", "0">>

\* Key paths: a dotted key is the sequence of its segments ('ui.enabled' is
\* <<"ui", "enabled">>; a trailing dot leaves an empty last segment). A
\* config object is the set of the paths of its leaves.
PluginConfigObjects ==
    {{<<"ui", "enabled">>},
     {<<"ui", "enabled">>, <<"server", "uuid">>}}

LegacyConfigObjects ==
    {{<<"kibana", "index">>},
     {<<"kibana", "index">>, <<"server", "uuid">>},
     {<<"kibana", "index">>, <<"ui", "enabled">>},
     {<<"kibana", "index">>, <<"ui", "enabled">>, <<"server", "uuid">>}}

\* ------------------------------------------------------- Plugin lifecycle
\* The plugin after its constructor (plugin.ts:75-87): nothing set up, the
\* uploader not created, no subscription; the router holds no handler.
Constructed ==
    /\ config \in Configs
    /\ setupDone = FALSE
    /\ subscribed = FALSE
    /\ uploaderCreated = FALSE
    /\ shimCreated = FALSE
    /\ setupLog = "none"
    /\ schedulerState = "Stopped"
    /\ timers = 0
    /\ tickInFlight = FALSE
    /\ lastUpload = "none"
    /\ lastLicense = {}
    /\ stream = <<>>
    /\ dispatched = <<>>
    /\ effects = <<>>
    /\ transitions = 0
    /\ stopCalls = 0
    /\ closeCalls = 0
    /\ licenseServiceStops = 0
    /\ router = [m \in RouterMethods |-> 0]
    /\ routeCalls = 0
    /\ lastRoute = [method |-> "none", threw |-> FALSE]
    /\ lastRequest = [kind |-> "none"]
    /\ lastResponse = [kind |-> "none"]
    /\ kibanaStats = {}
    /\ telemetryRegistered = FALSE
    /\ telemetryElasticsearchClient = {}
    /\ telemetrySavedObjectsService = {}
    /\ collections = <<>>
    /\ lastStart = {}
    /\ lastStats = [kind |-> "none"]
    /\ lastClusterCall = [name |-> "none", client |-> "none", threw |-> FALSE]
    /\ lastLookup = [kind |-> "none"]

\* The plugin constructed in one environment: version 7.10.0, a plugin
\* config holding ui.enabled, a legacy config holding kibana.index, the
\* telemetry collection manager present.
Init ==
    /\ Constructed
    /\ packageVersion = DefaultVersion
    /\ pluginConfig = {<<"ui", "enabled">>}
    /\ legacyConfig = {<<"kibana", "index">>}
    /\ telemetryManager = TRUE

\* The plugin constructed under any of the versions.
InitVersions ==
    /\ Constructed
    /\ packageVersion \in Versions
    /\ pluginConfig = {<<"ui", "enabled">>}
    /\ legacyConfig = {<<"kibana", "index">>}
    /\ telemetryManager = TRUE

\* The plugin constructed with any of the config objects.
InitConfigs ==
    /\ Constructed
    /\ packageVersion = DefaultVersion
    /\ pluginConfig \in PluginConfigObjects
    /\ legacyConfig \in LegacyConfigObjects
    /\ telemetryManager = TRUE

\* The plugin constructed with or without the telemetry collection manager.
InitTelemetry ==
    /\ Constructed
    /\ packageVersion = DefaultVersion
    /\ pluginConfig = {<<"ui", "enabled">>}
    /\ legacyConfig = {<<"kibana", "index">>}
    /\ telemetryManager \in BOOLEAN

\* The pattern of snapshotRegex (plugin.ts:59), /-snapshot/i.
snapshotPattern == <<"-", "s", "n", "a", "p", "s", "h", "o", "t">>

\* The lower-case form of a character of a version string.
Lower(c) ==
    CASE c = "S" -> "s" [] c = "N" -> "n" [] c = "A" -> "a" [] c = "P" -> "p"
      [] c = "H" -> "h" [] c = "O" -> "o" [] c = "T" -> "t"
      [] OTHER -> c

\* Mutant: the pattern matched without the i flag.
snapshotRegexTestCaseSensitive(version) ==
    \E i \in 1..(Len(version) - Len(snapshotPattern) + 1) :
        \A k \in 1..Len(snapshotPattern) :
            version[i + k - 1] = snapshotPattern[k]

\* snapshotRegex.test(version) (plugin.ts:198): the pattern matches at some
\* position, each character compared without regard to case.
snapshotRegexTest(version) ==
    \E i \in 1..(Len(version) - Len(snapshotPattern) + 1) :
        \A k \in 1..Len(snapshotPattern) :
            Lower(version[i + k - 1]) = snapshotPattern[k]

\* Mutant: subscribed whenever collection is enabled, licensing or not.
subscribesToLicenseIgnoringLicensing(cfg) == cfg.collectionEnabled

\* plugin.ts:203-208: license$ is subscribed to with
\* config.kibana.collection.enabled and plugins.licensing present.
subscribesToLicense(cfg) == cfg.collectionEnabled /\ cfg.licensing

\* Mutant: the uploader created only when collection is enabled.
createsBulkUploaderWhenCollecting(cfg) == cfg.collectionEnabled

\* plugin.ts:182-184: "Always create the bulk uploader".
createsBulkUploader(cfg) == TRUE

\* Plugin.setup: the telemetry getters are registered with the collection
\* manager if there is one (151-162); the bulk uploader is created with the
\* kibanaStats (182-200); the license
\* subscription is made only with collection enabled and licensing present
\* (203-228), otherwise a message is logged; the legacy shim is created only
\* with the UI enabled (232-249).
Setup ==
    /\ ~setupDone
    /\ setupDone' = TRUE
    /\ telemetryRegistered' = telemetryManager
    /\ uploaderCreated' = createsBulkUploader(config)
    /\ kibanaStats' = {[version |-> packageVersion,
                        snapshot |-> snapshotRegexTest(packageVersion)]}
    /\ subscribed' = subscribesToLicense(config)
    /\ setupLog' = IF config.collectionEnabled
                   THEN (IF config.licensing THEN "none" ELSE "warn")
                   ELSE "info"
    /\ shimCreated' = config.uiEnabled
    /\ UNCHANGED <<config, uploaderVars, tickVars, licenseVars, stopVars,
                   routeVars, requestVars, inputVars, telemetryVars,
                   lastStats, shimCallVars>>

\* ------------------------------------------------------ the bulk uploader
\* bulkUploader.start: Stopped -> Running with one new periodic timer; a
\* no-op while already Running.
BulkStart ==
    IF schedulerState = "Running"
    THEN UNCHANGED uploaderVars
    ELSE /\ schedulerState' = "Running"
         /\ timers' = timers + 1
         /\ transitions' = transitions + 1

\* bulkUploader.handleNotEnabled: forces Stopped, cancelling the timer; a
\* no-op while already Stopped.
BulkHandleNotEnabled ==
    IF schedulerState = "Stopped"
    THEN UNCHANGED uploaderVars
    ELSE /\ schedulerState' = "Stopped"
         /\ timers' = 0
         /\ transitions' = transitions + 1

\* The periodic timer fires while no upload is executing: a tick begins.
TickStart ==
    /\ timers >= 1
    /\ ~tickInFlight
    /\ tickInFlight' = TRUE
    /\ UNCHANGED <<lifecycleVars, uploaderVars, lastUpload, licenseVars,
                   stopVars, routeVars, requestVars, restVars>>

\* Mutant: a failed upload stops the scheduler.
TickFinishStopsOnFailure(ok) ==
    /\ tickInFlight
    /\ tickInFlight' = FALSE
    /\ lastUpload' = IF ok THEN "ok" ELSE "failed"
    /\ IF ok
       THEN UNCHANGED uploaderVars
       ELSE /\ schedulerState' = "Stopped"
            /\ timers' = 0
            /\ transitions' = transitions + 1
    /\ UNCHANGED <<lifecycleVars, licenseVars, stopVars, routeVars,
                   requestVars, restVars>>

\* The executing upload finishes, successfully or not; a failure is logged
\* and leaves the scheduler as it is. An upload in flight when the timer was
\* cancelled still finishes.
TickFinish(ok) ==
    /\ tickInFlight
    /\ tickInFlight' = FALSE
    /\ lastUpload' = IF ok THEN "ok" ELSE "failed"
    /\ UNCHANGED <<lifecycleVars, uploaderVars, licenseVars, stopVars,
                   routeVars, requestVars, restVars>>

\* ------------------------------------------------ the license subscription
\* Mutant: the verdict without the isEnabled test.
monitoringBulkEnabledNoIsEnabled(license) ==
    /\ license # {}
    /\ \A mainMonitoring \in license : mainMonitoring.isAvailable

\* Mutant: the verdict without the isAvailable test.
monitoringBulkEnabledNoIsAvailable(license) ==
    /\ license # {}
    /\ \A mainMonitoring \in license : mainMonitoring.isEnabled

\* Mutant: a license without the monitoring feature passes.
monitoringBulkEnabledAbsentPasses(license) ==
    \A mainMonitoring \in license :
        mainMonitoring.isAvailable /\ mainMonitoring.isEnabled

\* plugin.ts:210-212: mainMonitoring && mainMonitoring.isAvailable &&
\* mainMonitoring.isEnabled, as a truth value.
monitoringBulkEnabled(license) ==
    /\ license # {}
    /\ \A mainMonitoring \in license :
          mainMonitoring.isAvailable /\ mainMonitoring.isEnabled

\* History only: whether the emitted snapshot has the monitoring feature
\* available and enabled, read off the emission itself.
SnapshotEnabled(license) ==
    \E f \in license : f.isAvailable = TRUE /\ f.isEnabled = TRUE

\* History only: what the scheduler did on an emission.
Effect(before, after) ==
    IF before = after THEN "no-op"
    ELSE IF after = "Running" THEN "Stopped->Running" ELSE "Running->Stopped"

\* Mutant: the two branches of the callback exchanged.
LicenseCallbackSwapped(license) ==
    /\ subscribed
    /\ Len(stream) < MaxEmissions
    /\ IF monitoringBulkEnabled(license)
       THEN BulkHandleNotEnabled /\ dispatched' = Append(dispatched, "handleNotEnabled")
       ELSE BulkStart /\ dispatched' = Append(dispatched, "start")
    /\ lastLicense' = license
    /\ stream' = Append(stream, SnapshotEnabled(license))
    /\ effects' = Append(effects, Effect(schedulerState, schedulerState'))
    /\ UNCHANGED <<lifecycleVars, tickVars, stopVars, routeVars, requestVars, restVars>>

\* The callback subscribed to plugins.licensing.license$ (plugin.ts:208-218),
\* run on one emission: it calls bulkUploader.start or
\* bulkUploader.handleNotEnabled by the verdict on the monitoring feature.
LicenseCallback(license) ==
    /\ subscribed
    /\ Len(stream) < MaxEmissions
    /\ IF monitoringBulkEnabled(license)
       THEN BulkStart /\ dispatched' = Append(dispatched, "start")
       ELSE BulkHandleNotEnabled /\ dispatched' = Append(dispatched, "handleNotEnabled")
    /\ lastLicense' = license
    /\ stream' = Append(stream, SnapshotEnabled(license))
    /\ effects' = Append(effects, Effect(schedulerState, schedulerState'))
    /\ UNCHANGED <<lifecycleVars, tickVars, stopVars, routeVars, requestVars, restVars>>

\* Plugin.stop (plugin.ts:269-276): closes the monitoring cluster client and
\* stops the license service. this.cluster is never cleared, so close() is
\* called on every stop; neither the bulk uploader nor the license$
\* subscription is touched.
Stop ==
    /\ setupDone
    /\ stopCalls < MaxStops
    /\ stopCalls' = stopCalls + 1
    /\ closeCalls' = closeCalls + 1
    /\ licenseServiceStops' = licenseServiceStops + 1
    /\ UNCHANGED <<lifecycleVars, uploaderVars, tickVars, licenseVars,
                   routeVars, requestVars, restVars>>

\* ------------------------------------------------------- the legacy shim
\* Values a legacy handler can throw. class: "null" (null or undefined),
\* "object" (a plain object or other non-Error value), "Error" (an Error
\* instance that is no Boom error), "Boom" (a Boom error, which always
\* carries output.statusCode). output is err.output.statusCode, statusCode
\* err.statusCode, status err.status.
Throwables ==
    {[class |-> "null", output |-> {}, statusCode |-> {}, status |-> {},
      message |-> "raw message"]}
    \cup [class : {"object", "Error"}, output : {{}, {403}, {500}},
          statusCode : {{}, {404}, {500}}, status : {{}, {400}, {500}},
          message : {"raw message"}]
    \cup [class : {"Boom"}, output : {{403}, {500}},
          statusCode : {{}, {404}, {500}}, status : {{}, {400}, {500}},
          message : {"raw message"}]

\* What a legacy handler does with a request: returns a value, at once or
\* as a promise that resolves to it (deferred), or throws.
HandlerOutcomes ==
    [kind : {"return"}, value : {"payload", "other payload"}, deferred : BOOLEAN]
    \cup [kind : {"throw"}, err : Throwables]

\* A request: whether getCoreServices() resolves, and what the legacy
\* handler does.
Requests == [kind : {"request"}, servicesResolve : BOOLEAN, outcome : HandlerOutcomes]

\* The requests drawn while the scheduler runs: one per path of the handler.
FewRequests ==
    {r \in Requests :
        \/ r.outcome = [kind |-> "return", value |-> "payload", deferred |-> FALSE]
        \/ /\ r.servicesResolve
           /\ r.outcome.kind = "throw"
           /\ r.outcome.err.statusCode = {}
           /\ r.outcome.err.status = {}
           /\ \/ r.outcome.err.class = "Boom" /\ r.outcome.err.output = {403}
              \/ r.outcome.err.class = "Error" /\ r.outcome.err.output = {}}

\* The value of a defined optional field.
Val(field) == CHOOSE v \in field : TRUE

\* JavaScript truthiness of an optional number: defined and not 0.
Truthy(field) == field # {} /\ field # {0}

\* Boom.isBoom(err): an Error instance carrying isBoom.
isBoom(err) == err.class = "Boom"

\* Boom.boomify(error, options) refuses what is no Error instance
\* ("Cannot wrap non-Error object").
boomifyThrows(error) == error.class \notin {"Error", "Boom"}

\* Boom.boomify(error, {statusCode}) as called by wrapError (plugin.ts:63):
\* the error decorated as a Boom error; its output payload repeats the
\* error's message except for status 500, where Boom puts a fixed text.
boomify(error, statusCode) ==
    [isBoom |-> TRUE,
     error |-> error,
     output |-> [statusCode |-> statusCode,
                 headers |-> {},
                 payload |-> [statusCode |-> statusCode,
                              message |-> IF statusCode = 500
                                          THEN "An internal server error occurred"
                                          ELSE error.message]]]

\* Mutant: the envelope's payload always repeats the error's message.
wrapErrorRawMessage(error) ==
    LET boom == [isBoom |-> TRUE,
                 error |-> error,
                 output |-> [statusCode |-> InternalServerError,
                             headers |-> {},
                             payload |-> [statusCode |-> InternalServerError,
                                          message |-> error.message]]]
    IN [body |-> boom, headers |-> boom.output.headers,
        statusCode |-> boom.output.statusCode]

\* wrapError (plugin.ts:61-69), for an error that is no Boom error (the only
\* call, plugin.ts:408, passes none): statusCode is error.statusCode ?? 500.
wrapError(error) ==
    LET options == [statusCode |-> IF error.statusCode = {}
                                   THEN InternalServerError
                                   ELSE Val(error.statusCode)]
        boom == boomify(error, options.statusCode)
    IN [body |-> boom, headers |-> boom.output.headers,
        statusCode |-> boom.output.statusCode]

\* Mutant: err.status consulted before err.statusCode.
resolveStatusCodeStatusFirst(err) ==
    IF Truthy(err.output) THEN Val(err.output)
    ELSE IF Truthy(err.status) THEN Val(err.status)
    ELSE IF Truthy(err.statusCode) THEN Val(err.statusCode)
    ELSE InternalServerError

\* plugin.ts:403-404:
\* err.output?.statusCode || err.statusCode || err.status || 500.
resolveStatusCode(err) ==
    IF Truthy(err.output) THEN Val(err.output)
    ELSE IF Truthy(err.statusCode) THEN Val(err.statusCode)
    ELSE IF Truthy(err.status) THEN Val(err.status)
    ELSE InternalServerError

\* The handler's promise rejects: nothing is returned to the router.
Rejected == [kind |-> "rejected"]

\* Mutant: every thrown error answered by res.customError.
catchBlockAlwaysCustom(err) ==
    IF err.class = "null"
    THEN Rejected
    ELSE [kind |-> "customError", statusCode |-> resolveStatusCode(err), body |-> err]

\* The catch block of the new-style handler (plugin.ts:402-409). Reading
\* err.output of null or undefined throws inside the block, and so does
\* Boom.boomify of a non-Error value inside wrapError: the handler rejects.
\* res.internalError answers with status 500 whatever its options say.
catchBlock(err) ==
    IF err.class = "null"
    THEN Rejected
    ELSE LET statusCode == resolveStatusCode(err)
         IN IF isBoom(err) \/ statusCode # 500
            THEN [kind |-> "customError", statusCode |-> statusCode, body |-> err]
            ELSE IF boomifyThrows(err)
            THEN Rejected
            ELSE [kind |-> "internalError", statusCode |-> 500,
                  body |-> wrapError(err).body]

\* Mutant: the handler's result is not awaited.
handlerNoAwait(req) ==
    IF ~req.servicesResolve
    THEN Rejected
    ELSE IF req.outcome.kind = "return"
    THEN [kind |-> "ok", statusCode |-> 200,
          body |-> IF req.outcome.deferred
                   THEN "[object Promise]" ELSE req.outcome.value]
    ELSE catchBlock(req.outcome.err)

\* The new-style handler built by route (plugin.ts:344-410) on one request:
\* getCoreServices() is awaited outside the try block, so its rejection
\* rejects the handler; a returned value, awaited, is answered by res.ok.
handler(req) ==
    IF ~req.servicesResolve
    THEN Rejected
    ELSE IF req.outcome.kind = "return"
    THEN [kind |-> "ok", statusCode |-> 200, body |-> req.outcome.value]
    ELSE catchBlock(req.outcome.err)

\* Mutant: a method that is not supported is ignored without an error.
routeIgnoresUnsupported(method) ==
    /\ shimCreated
    /\ routeCalls < MaxRoutes
    /\ routeCalls' = routeCalls + 1
    /\ router' = IF method = "POST" THEN [router EXCEPT !.post = @ + 1]
                 ELSE IF method = "GET" THEN [router EXCEPT !.get = @ + 1]
                 ELSE IF method = "PUT" THEN [router EXCEPT !.put = @ + 1]
                 ELSE router
    /\ lastRoute' = [method |-> method, threw |-> FALSE]
    /\ UNCHANGED <<lifecycleVars, uploaderVars, tickVars, licenseVars,
                   stopVars, requestVars, restVars>>

\* MonitoringCore.route(options) (plugin.ts:342-427), as called by the UI
\* routes once the shim exists: the handler is registered on router.post,
\* router.get or router.put by options.method; any other method throws
\* 'Unsupport API method' and registers nothing.
route(method) ==
    /\ shimCreated
    /\ routeCalls < MaxRoutes
    /\ routeCalls' = routeCalls + 1
    /\ router' = IF method = "POST" THEN [router EXCEPT !.post = @ + 1]
                 ELSE IF method = "GET" THEN [router EXCEPT !.get = @ + 1]
                 ELSE IF method = "PUT" THEN [router EXCEPT !.put = @ + 1]
                 ELSE router
    /\ lastRoute' = [method |-> method,
                     threw |-> method \notin {"POST", "GET", "PUT"}]
    /\ UNCHANGED <<lifecycleVars, uploaderVars, tickVars, licenseVars,
                   stopVars, requestVars, restVars>>

\* The router serves one request through a handler registered by route.
HttpRequest(req) ==
    /\ \E m \in RouterMethods : router[m] > 0
    /\ lastRequest' = req
    /\ lastResponse' = handler(req)
    /\ UNCHANGED <<lifecycleVars, uploaderVars, tickVars, licenseVars,
                   stopVars, routeVars, restVars>>

\* The cluster names asked of getCluster.
ClusterNames == {"monitoring", "data", "admin", "unknown-name"}

\* plugin.ts:388-389: the client a caller made by getCluster(name) uses:
\* the monitoring cluster for 'monitoring', esDataClient for any other name.
clientFor(name) == IF name = "monitoring" THEN "monitoring" ELSE "data"

\* server.plugins.elasticsearch.getCluster(name).callWithRequest(...)
\* (plugin.ts:386-394), called by a legacy handler while a request is
\* served: nothing in it throws on the name.
callWithRequest(name) ==
    /\ \E m \in RouterMethods : router[m] > 0
    /\ lastClusterCall' = [name |-> name, client |-> clientFor(name), threw |-> FALSE]
    /\ UNCHANGED <<lifecycleVars, uploaderVars, tickVars, licenseVars, stopVars,
                   routeVars, requestVars, inputVars, kibanaStats,
                   telemetryRegistered, telemetryVars, lastStats, lastLookup>>

\* The segments the looked-up keys are made of.
KeySegments == {"monitoring", "ui", "enabled", "server", "uuid"}

\* Segments of a looked-up key, at most.
MaxKeyLen == 3

\* The keys looked up.
Keys == UNION {[1..n -> KeySegments] : n \in 1..MaxKeyLen}

\* The positions at which the text 'monitoring.' occurs in a key: a segment
\* "monitoring" followed by a dot.
Occurrences(key) == {i \in 1..(Len(key) - 1) : key[i] = "monitoring"}

\* The least element of a non-empty set of positions.
First(positions) == CHOOSE i \in positions : \A j \in positions : i <= j

\* Mutant: only a leading 'monitoring.' is stripped.
legacyKeyLeadingPrefix(key) ==
    IF Len(key) > 1 /\ key[1] = "monitoring" THEN Tail(key) ELSE key

\* plugin.ts:324: _key.includes('monitoring.') ?
\* _key.split('monitoring.')[1] : _key. The second piece of the split is the
\* text between the first occurrence and the next one, if any: up to the
\* next occurrence it ends with the dot before it.
legacyKey(key) ==
    IF Occurrences(key) = {}
    THEN key
    ELSE LET first == First(Occurrences(key))
             later == {j \in Occurrences(key) : j > first}
         IN IF later = {}
            THEN SubSeq(key, first + 1, Len(key))
            ELSE SubSeq(key, first + 1, First(later) - 1) \o <<"">>

\* lodash has(object, key): the path leads to a leaf or to an object on the
\* way to one.
has(object, key) ==
    \E leaf \in object :
        Len(key) <= Len(leaf) /\ SubSeq(leaf, 1, Len(key)) = key

\* Mutant: the legacy config consulted before the plugin config.
lookupLegacyFirst(key) ==
    IF has(legacyConfig, legacyKey(key))
    THEN [kind |-> "value", from |-> "legacyConfig", path |-> legacyKey(key)]
    ELSE IF has(pluginConfig, legacyKey(key))
    THEN [kind |-> "value", from |-> "config", path |-> legacyKey(key)]
    ELSE IF legacyKey(key) = <<"server", "uuid">>
    THEN [kind |-> "value", from |-> "instanceUuid", path |-> legacyKey(key)]
    ELSE [kind |-> "throw", from |-> "none", path |-> key]

\* legacyConfigWrapper().get(_key) (plugin.ts:323-337): the value of the
\* config, else of the legacy config, else the instance uuid for
\* 'server.uuid', else Error("Unknown key '_key'").
lookup(key) ==
    IF has(pluginConfig, legacyKey(key))
    THEN [kind |-> "value", from |-> "config", path |-> legacyKey(key)]
    ELSE IF has(legacyConfig, legacyKey(key))
    THEN [kind |-> "value", from |-> "legacyConfig", path |-> legacyKey(key)]
    ELSE IF legacyKey(key) = <<"server", "uuid">>
    THEN [kind |-> "value", from |-> "instanceUuid", path |-> legacyKey(key)]
    ELSE [kind |-> "throw", from |-> "none", path |-> key]

\* A call of monitoringCore.config().get(key), possible once the shim
\* exists. A lookup leaves nothing behind for the next one, so a behaviour
\* holds one.
configGet(key) ==
    /\ shimCreated
    /\ lastLookup.kind = "none"
    /\ lastLookup' = [kind |-> "get", key |-> key, result |-> lookup(key)]
    /\ UNCHANGED <<lifecycleVars, uploaderVars, tickVars, licenseVars, stopVars,
                   routeVars, requestVars, inputVars, kibanaStats,
                   telemetryRegistered, telemetryVars, lastStats,
                   lastClusterCall>>

\* A call of the getKibanaStats that setup returned (plugin.ts:251-255): it
\* delegates to this.bulkUploader.getKibanaStats(), which gives the
\* kibanaStats the uploader was created with; on the empty object the
\* field holds before the uploader is created, the call is a TypeError.
GetKibanaStats ==
    /\ setupDone
    /\ lastStats' = IF uploaderCreated
                    THEN [kind |-> "stats", payload |-> kibanaStats]
                    ELSE [kind |-> "TypeError", payload |-> {}]
    /\ UNCHANGED <<lifecycleVars, uploaderVars, tickVars, licenseVars, stopVars,
                   routeVars, requestVars, inputVars, kibanaStats,
                   telemetryRegistered, telemetryVars, shimCallVars>>

\* ------------------------------------------------------------- telemetry
\* The services of CoreStart handed to Plugin.start.
CoreStarts == [elasticsearch : {"esClientA", "esClientB"},
               savedObjects : {"savedObjectsA", "savedObjectsB"}]

\* Collection attempts made by the telemetry collection manager.
MaxCollections == 3

\* esClientGetter (plugin.ts:156): () => this.telemetryElasticsearchClient.
esClientGetter == telemetryElasticsearchClient

\* soServiceGetter (plugin.ts:157): () => this.telemetrySavedObjectsService.
soServiceGetter == telemetrySavedObjectsService

\* Mutant: start keeps the services it already holds.
StartKeepsFirstServices(coreStart) ==
    /\ setupDone
    /\ telemetryElasticsearchClient' =
           IF telemetryElasticsearchClient = {}
           THEN {coreStart.elasticsearch} ELSE telemetryElasticsearchClient
    /\ telemetrySavedObjectsService' =
           IF telemetrySavedObjectsService = {}
           THEN {coreStart.savedObjects} ELSE telemetrySavedObjectsService
    /\ lastStart' = {coreStart}
    /\ UNCHANGED <<lifecycleVars, uploaderVars, tickVars, licenseVars, stopVars,
                   routeVars, requestVars, inputVars, kibanaStats,
                   telemetryRegistered, collections, lastStats, shimCallVars>>

\* Plugin.start (plugin.ts:258-267): stores elasticsearch.client and
\* savedObjects of the CoreStart it is given.
Start(coreStart) ==
    /\ setupDone
    /\ telemetryElasticsearchClient' = {coreStart.elasticsearch}
    /\ telemetrySavedObjectsService' = {coreStart.savedObjects}
    /\ lastStart' = {coreStart}
    /\ UNCHANGED <<lifecycleVars, uploaderVars, tickVars, licenseVars, stopVars,
                   routeVars, requestVars, inputVars, kibanaStats,
                   telemetryRegistered, collections, lastStats, shimCallVars>>

\* One collection attempt: the collection manager invokes the two getters
\* registered at setup (plugin.ts:153-161); what they yield is recorded
\* with the start, if any, that preceded the attempt.
Collect ==
    /\ telemetryRegistered
    /\ Len(collections) < MaxCollections
    /\ collections' = Append(collections,
                             [es |-> esClientGetter, so |-> soServiceGetter,
                              after |-> lastStart])
    /\ UNCHANGED <<lifecycleVars, uploaderVars, tickVars, licenseVars, stopVars,
                   routeVars, requestVars, inputVars, kibanaStats,
                   telemetryRegistered, telemetryElasticsearchClient,
                   telemetrySavedObjectsService, lastStart, lastStats,
                   shimCallVars>>

\* ----------------------------------------------------------- specifications
\* The whole plugin: lifecycle, license emissions, upload ticks, route
\* registrations and requests, interleaved.
Next ==
    \/ Setup
    \/ \E license \in Features : LicenseCallback(license)
    \/ TickStart
    \/ \E ok \in BOOLEAN : TickFinish(ok)
    \/ Stop
    \/ \E method \in FewMethods : route(method)
    \/ \E req \in FewRequests : HttpRequest(req)
    \/ GetKibanaStats

Spec == Init /\ [][Next]_vars

\* The legacy shim alone, with every request of Requests.
NextBridge ==
    \/ Setup
    \/ \E method \in Methods : route(method)
    \/ \E req \in Requests : HttpRequest(req)

SpecBridge == Init /\ [][NextBridge]_vars

\* The cluster callers of the legacy request.
NextCluster ==
    \/ Setup
    \/ \E method \in Methods : route(method)
    \/ \E name \in ClusterNames : callWithRequest(name)

SpecCluster == Init /\ [][NextCluster]_vars

\* The telemetry getters across setup, start and collection attempts.
NextTelemetry ==
    \/ Setup
    \/ \E coreStart \in CoreStarts : Start(coreStart)
    \/ Collect
    \/ Stop

SpecTelemetry == InitTelemetry /\ [][NextTelemetry]_vars

\* The kibanaStats of every version.
NextStats ==
    \/ Setup
    \/ GetKibanaStats

SpecStats == InitVersions /\ [][NextStats]_vars

\* The legacy config lookup over every config object and key.
NextConfig ==
    \/ Setup
    \/ \E key \in Keys : configGet(key)

SpecConfig == InitConfigs /\ [][NextConfig]_vars

\* ------------------------------------------------------------------ claims
\* C1: with collection enabled and licensing present, after any sequence of
\* license emissions, interleaved with ticks, stops and requests, the
\* scheduler is Running exactly when the last observed license had the
\* monitoring feature available and enabled; every emission dispatched
\* exactly one call, start for an enabled snapshot and handleNotEnabled for
\* any other.
C1_RunningIffLastLicenseEnabled ==
    (config.collectionEnabled /\ config.licensing) =>
        /\ (schedulerState = "Running")
              <=> (stream # <<>> /\ SnapshotEnabled(lastLicense))
        /\ Len(dispatched) = Len(stream)
        /\ \A i \in 1..Len(stream) :
              dispatched[i] = IF stream[i] THEN "start" ELSE "handleNotEnabled"

\* C1, its case: Running after a disabled and then an enabled license, with
\* a tick finished, a stop and a request in between.
C1_Witness ==
    /\ schedulerState = "Running"
    /\ Len(stream) >= 3
    /\ \E i \in 1..Len(stream) : ~stream[i]
    /\ lastUpload # "none"
    /\ stopCalls > 0
    /\ lastRequest.kind = "request"

\* C2: there is never more than one active periodic timer, and an enabled
\* emission observed while Running, like a not-enabled emission observed
\* while Stopped, changes nothing in the scheduler.
C2_AtMostOneTimer ==
    /\ [](timers <= 1)
    /\ [][(Len(stream') = Len(stream) + 1
             /\ \/ SnapshotEnabled(lastLicense') /\ schedulerState = "Running"
                \/ ~SnapshotEnabled(lastLicense') /\ schedulerState = "Stopped")
          => UNCHANGED <<schedulerState, timers, transitions, tickInFlight>>]_vars

\* C2, its case: a second enabled emission arrived while Running, and one
\* timer is active.
C2_Witness ==
    /\ Len(stream) >= 2
    /\ stream[Len(stream)] /\ stream[Len(stream) - 1]
    /\ effects[Len(effects)] = "no-op"
    /\ timers = 1

\* C3 as stated: the stream [enabled, enabled, disabled, enabled] from
\* Stopped is observed as [Stopped->Running, no-op, Running->Stopped,
\* Stopped->Running] and records exactly 2 real transitions.
C3_TwoTransitions ==
    stream = <<TRUE, TRUE, FALSE, TRUE>> =>
        /\ effects = <<"Stopped->Running", "no-op", "Running->Stopped",
                       "Stopped->Running">>
        /\ transitions = 2

\* C3 as amended: the stream [enabled, enabled, disabled, enabled] from
\* Stopped is observed as [Stopped->Running, no-op, Running->Stopped,
\* Stopped->Running] and records exactly 3 real transitions, not 4.
C3_ThreeTransitions ==
    stream = <<TRUE, TRUE, FALSE, TRUE>> =>
        /\ effects = <<"Stopped->Running", "no-op", "Running->Stopped",
                       "Stopped->Running">>
        /\ transitions = 3

\* C3, its case: the four emissions have been observed.
C3_Witness ==
    /\ stream = <<TRUE, TRUE, FALSE, TRUE>>
    /\ schedulerState = "Running"

\* C4 as stated: once Plugin.stop() has been called, no periodic timer stays
\* scheduled and no further upload tick begins, also when a later license
\* is enabled.
C4_NoTickAfterStop ==
    [][stopCalls > 0 => (timers' = 0 /\ (tickInFlight' => tickInFlight))]_vars

\* C5 as stated: however often Plugin.stop() is called, the client's close()
\* is observed exactly once.
C5_CloseObservedOnce ==
    stopCalls >= 1 => closeCalls = 1

\* The last request ran the legacy handler, which threw, and the bridge
\* answered the router.
ThrewAndAnswered ==
    /\ lastRequest.kind = "request"
    /\ lastRequest.servicesResolve
    /\ lastRequest.outcome.kind = "throw"
    /\ lastResponse.kind # "rejected"

\* The status the claims name: the first defined field among
\* output.statusCode, statusCode, status, else 500.
PriorityStatus(err) ==
    LET fields == <<err.output, err.statusCode, err.status>>
        present == {i \in 1..3 : fields[i] # {}}
    IN IF present = {}
       THEN 500
       ELSE Val(fields[CHOOSE i \in present : \A j \in present : i <= j])

\* C6: when a legacy handler throws, the status of the bridge's response is
\* err.output.statusCode if present, else err.statusCode, else err.status,
\* else 500.
C6_StatusByPriority ==
    ThrewAndAnswered =>
        lastResponse.statusCode = PriorityStatus(lastRequest.outcome.err)

\* C6, its case: only err.status is present, and the response carries it.
C6_Witness ==
    /\ ThrewAndAnswered
    /\ lastRequest.outcome.err.output = {}
    /\ lastRequest.outcome.err.statusCode = {}
    /\ lastRequest.outcome.err.status = {400}
    /\ lastResponse.statusCode = 400

\* C7 as stated: a thrown error whose resolved status is not 500 is answered
\* by res.customError with that status and the error as body; one whose
\* resolved status is 500, a Boom error included, is answered by the
\* internal-error response, whose body is not the original error.
C7_Non500CustomElseInternal ==
    ThrewAndAnswered =>
        IF PriorityStatus(lastRequest.outcome.err) # 500
        THEN /\ lastResponse.kind = "customError"
             /\ lastResponse.statusCode = PriorityStatus(lastRequest.outcome.err)
             /\ lastResponse.body = lastRequest.outcome.err
        ELSE /\ lastResponse.kind = "internalError"
             /\ lastResponse.body # lastRequest.outcome.err

\* Neither statusCode nor status is set on the thrown value.
NoStatusFields(err) == err.statusCode = {} /\ err.status = {}

\* C8: a handler throwing a value with output.statusCode = 403 is answered
\* with status 403 and that value as body; a handler throwing a plain Error
\* with no output.statusCode, statusCode or status is answered with status
\* 500 and an envelope whose message is not the error's message.
C8_Status403AndPlainError ==
    (/\ lastRequest.kind = "request"
     /\ lastRequest.servicesResolve
     /\ lastRequest.outcome.kind = "throw") =>
        LET err == lastRequest.outcome.err
        IN /\ (err.class # "null" /\ err.output = {403}) =>
                 /\ lastResponse.kind = "customError"
                 /\ lastResponse.statusCode = 403
                 /\ lastResponse.body = err
           /\ (err.class = "Error" /\ err.output = {} /\ NoStatusFields(err)) =>
                 /\ lastResponse.kind = "internalError"
                 /\ lastResponse.statusCode = 500
                 /\ lastResponse.body.isBoom
                 /\ lastResponse.body.output.payload.message # err.message

\* C8, its case: a plain Error with no status was thrown and answered.
C8_Witness ==
    /\ ThrewAndAnswered
    /\ lastRequest.outcome.err.class = "Error"
    /\ lastRequest.outcome.err.output = {}
    /\ NoStatusFields(lastRequest.outcome.err)
    /\ lastResponse.kind = "internalError"

\* C9 as stated: the new-style handler always returns a response and never
\* rejects, whatever fails while it builds the legacy request or runs the
\* legacy handler.
C9_NeverRejects ==
    lastResponse.kind # "rejected"

\* The router method a supported options.method registers on.
RouterMethodOf(method) ==
    CASE method = "GET" -> "get"
      [] method = "POST" -> "post"
      [] method = "PUT" -> "put"

\* C10: a route call with a method other than GET, POST or PUT throws and
\* registers no handler; one with GET, POST or PUT registers exactly one
\* handler, on the matching router method, and throws nothing.
C10_RouteMethodDispatch ==
    [][routeCalls' = routeCalls + 1 =>
         IF lastRoute'.method \in {"GET", "POST", "PUT"}
         THEN /\ ~lastRoute'.threw
              /\ router' = [router EXCEPT ![RouterMethodOf(lastRoute'.method)] = @ + 1]
         ELSE /\ lastRoute'.threw
              /\ router' = router]_vars

\* C10, its case: a DELETE route was refused after a supported one was
\* registered.
C10_Witness ==
    /\ lastRoute.method = "DELETE"
    /\ lastRoute.threw
    /\ routeCalls = 2
    /\ router["get"] + router["post"] + router["put"] = 1

\* C11 as stated: a caller for 'monitoring' uses the monitoring cluster
\* client, a caller for the data cluster's name the data client, and a
\* caller for any other name fails without a call to any cluster.
C11_UnknownClusterFailsFast ==
    /\ lastClusterCall.name = "monitoring" => lastClusterCall.client = "monitoring"
    /\ lastClusterCall.name = "data" => lastClusterCall.client = "data"
    /\ lastClusterCall.name \notin {"none", "monitoring", "data"} =>
          lastClusterCall.threw /\ lastClusterCall.client = "none"

\* C12: the telemetry getters are evaluated anew on every collection
\* attempt: an attempt before any Plugin.start yields two absent values, an
\* attempt after a start yields the Elasticsearch client and the
\* saved-objects service of the most recent start, whatever earlier
\* attempts yielded.
C12_GettersFollowStart ==
    \A i \in 1..Len(collections) :
        IF collections[i].after = {}
        THEN collections[i].es = {} /\ collections[i].so = {}
        ELSE \A coreStart \in collections[i].after :
                /\ collections[i].es = {coreStart.elasticsearch}
                /\ collections[i].so = {coreStart.savedObjects}

\* C12, its case: an attempt before start found nothing, a later one found
\* the services of a start, and a still later one those of a second start.
C12_Witness ==
    /\ Len(collections) = 3
    /\ collections[1].es = {}
    /\ collections[2].es = {"esClientA"}
    /\ collections[3].es = {"esClientB"}
    /\ collections[3].so = {"savedObjectsA"}

\* C13: without a licensing plugin, or with kibana.collection.enabled
\* false, the license stream is never subscribed to and the scheduler is
\* never started: no call is dispatched to the uploader, no timer is active
\* and no tick runs; setup has logged the warning about missing license
\* information, respectively the info message about the configuration.
C13_NeverStartedWithoutLicensing ==
    (~config.collectionEnabled \/ ~config.licensing) =>
        /\ ~subscribed
        /\ dispatched = <<>>
        /\ schedulerState = "Stopped"
        /\ timers = 0
        /\ ~tickInFlight
        /\ setupDone =>
              setupLog = IF config.collectionEnabled THEN "warn" ELSE "info"

\* C13, its case: collection enabled without licensing, setup done and the
\* plugin used and stopped since.
C13_Witness ==
    /\ config.collectionEnabled
    /\ ~config.licensing
    /\ setupDone
    /\ setupLog = "warn"
    /\ lastRequest.kind = "request"
    /\ stopCalls > 0

\* C14: a tick that ends in a failed upload leaves the scheduler as it was
\* (state, timer, transitions, dispatched calls) and starts no upload by
\* itself: the next one begins with the next firing of the timer. The
\* scheduler's state changes only in a step that observes a license
\* emission.
C14_FailedUploadKeepsScheduler ==
    /\ [][(tickInFlight /\ ~tickInFlight' /\ lastUpload' = "failed")
            => UNCHANGED <<schedulerState, timers, transitions, dispatched>>]_vars
    /\ [][schedulerState' # schedulerState
            => Len(stream') = Len(stream) + 1]_vars

\* C14, its case: an upload failed while Running, and the next tick has
\* begun on the timer that is still active.
C14_Witness ==
    /\ lastUpload = "failed"
    /\ schedulerState = "Running"
    /\ timers = 1
    /\ tickInFlight

\* The reverse of a case-insensitive match, on upper case: the upper-case
\* form of a character, and of a string.
Upper(c) ==
    CASE c = "s" -> "S" [] c = "n" -> "N" [] c = "a" -> "A" [] c = "p" -> "P"
      [] c = "h" -> "H" [] c = "o" -> "O" [] c = "t" -> "T"
      [] OTHER -> c

UpperAll(version) == [k \in 1..Len(version) |-> Upper(version[k])]

\* The version holds "-snapshot" as a substring, compared without regard
\* to case.
ContainsSnapshot(version) ==
    \E i \in 1..Len(version) : \E j \in i..Len(version) :
        SubSeq(UpperAll(version), i, j)
            = <<"-", "S", "N", "A", "P", "S", "H", "O", "T">>

\* C15: the snapshot flag of the stats payload is true exactly when the
\* version holds "-snapshot" without regard to case: true for
\* "7.10.0-SNAPSHOT", false for "7.10.0".
C15_SnapshotFlag ==
    lastStats.kind = "stats" =>
        \A stats \in lastStats.payload :
            /\ stats.snapshot <=> ContainsSnapshot(stats.version)
            /\ stats.version = <<"7", ".", "1", "0", ".", "0", "-",
                                 "S", "N", "A", "P", "S", "H", "O", "T">>
                  => stats.snapshot
            /\ stats.version = <<"7", ".", "1", "0", ".", "0">>
                  => ~stats.snapshot

\* C15, its case: the payload of version 7.10.0-SNAPSHOT was fetched.
C15_Witness ==
    /\ lastStats.kind = "stats"
    /\ \E stats \in lastStats.payload :
          /\ stats.version = <<"7", ".", "1", "0", ".", "0", "-",
                               "S", "N", "A", "P", "S", "H", "O", "T">>
          /\ stats.snapshot

\* The fallback order the claim names, for a resolved key: the sources in
\* their order, the first that holds the key.
Fallback(resolved, asked) ==
    LET sources == <<[from |-> "config", holds |-> has(pluginConfig, resolved)],
                     [from |-> "legacyConfig", holds |-> has(legacyConfig, resolved)],
                     [from |-> "instanceUuid", holds |-> resolved = <<"server", "uuid">>]>>
        holding == {i \in 1..3 : sources[i].holds}
    IN IF holding = {}
       THEN [kind |-> "throw", from |-> "none", path |-> asked]
       ELSE [kind |-> "value", from |-> sources[First(holding)].from,
             path |-> resolved]

\* A key without its leading 'monitoring.'.
WithoutLeadingPrefix(key) ==
    IF Len(key) > 1 /\ Head(key) = "monitoring" THEN Tail(key) ELSE key

\* C16: get(key) strips a leading 'monitoring.' and resolves the
\* rest from the plugin config, else the legacy config, else the instance
\* uuid for 'server.uuid', else throws the unknown-key error.
C16_LeadingPrefixStripped ==
    lastLookup.kind = "get" =>
        lastLookup.result
            = Fallback(WithoutLeadingPrefix(lastLookup.key), lastLookup.key)

\* C17: a legacy handler that returns, at once or through a promise, is
\* answered by res.ok with exactly the returned value as body, and by no
\* error response.
C17_ReturnAnsweredOk ==
    (/\ lastRequest.kind = "request"
     /\ lastRequest.servicesResolve
     /\ lastRequest.outcome.kind = "return") =>
        /\ lastResponse.kind = "ok"
        /\ lastResponse.body = lastRequest.outcome.value

\* C17, its case: a handler returned a promise and its value was answered.
C17_Witness ==
    /\ lastRequest.kind = "request"
    /\ lastRequest.servicesResolve
    /\ lastRequest.outcome.kind = "return"
    /\ lastRequest.outcome.deferred
    /\ lastResponse.kind = "ok"
    /\ lastResponse.body = "other payload"

\* The emitted license lacks the monitoring feature, or has it unavailable
\* or not enabled.
NotEnabledLicense(license) ==
    \/ license = {}
    \/ \E f \in license : ~f.isAvailable \/ ~f.isEnabled

\* C18: an emission whose monitoring feature is absent, unavailable or not
\* enabled makes the callback call handleNotEnabled and not start.
C18_FailsClosed ==
    [][(Len(stream') = Len(stream) + 1 /\ NotEnabledLicense(lastLicense'))
         => dispatched' = Append(dispatched, "handleNotEnabled")]_vars

\* C18, its case: after a start, a license without the monitoring feature
\* was observed and stopped the scheduler.
C18_Witness ==
    /\ Len(stream) >= 2
    /\ lastLicense = {}
    /\ dispatched[Len(dispatched)] = "handleNotEnabled"
    /\ dispatched[Len(dispatched) - 1] = "start"
    /\ schedulerState = "Stopped"

\* C19: on every setup path the uploader exists once setup is done, and so
\* whenever the license stream is subscribed to or has dispatched a call;
\* the getKibanaStats that setup returned always reaches an uploader.
C19_UploaderAlwaysCreated ==
    /\ setupDone => uploaderCreated
    /\ (subscribed \/ dispatched # <<>>) => uploaderCreated
    /\ lastStats.kind # "TypeError"

\* C19, its case: stats were fetched after a setup with collection and UI
\* disabled.
C19_Witness ==
    /\ setupDone
    /\ ~config.collectionEnabled
    /\ ~config.uiEnabled
    /\ lastStats.kind = "stats"
    /\ stopCalls > 0

====
